---- MODULE Spec2Model ----
(***************************************************************************)
(* A model of tftp-rs: the wire codec of src/src/lib.rs (PacketType and    *)
(* the five packet structs), the read and write handlers of TFTPServer,    *)
(* and the receive loop of src/src/main.rs.                                *)
(*                                                                         *)
(* Byte strings are sequences of integers 0..255.  A Rust slice s[a..b]    *)
(* (0-based, half open) is Slice(s, a, b); taking it panics when a > b or  *)
(* b > len, which the decoders model by the result [t |-> "Panic"].        *)
(***************************************************************************)
EXTENDS Integers, Sequences, FiniteSets, TLC

\* ------------------------------------------------------------- constants

\* const BUFFER_SIZE: the size of every serialize() buffer and of main's
\* receive buffer.
BUFFER_SIZE == 4096

\* The length of file_buffer ([0; 512]): the most bytes one read returns,
\* and the length a chunk must have for the loop to go on.
BLOCK_SIZE == 512

\* The length of ack_buffer ([0; 512]), the session's receive buffer.
ACK_BUFFER_SIZE == 512

\* u16 arithmetic: 2^16.
U16_MOD == 65536

\* ------------------------------------------------------------ byte help

Slice(s, a, b) == SubSeq(s, a + 1, b)

SliceOk(s, a, b) == a <= b /\ b <= Len(s)

Zeros(n) == [i \in 1..n |-> 0]

U16FromBE(s) == s[1] * 256 + s[2]

U16ToBE(n) == << n \div 256, n % 256 >>

\* The length of the first piece input.split(|x| *x == 0) yields from index
\* i (1-based) on: the bytes before the first NUL, or all of them.
RECURSIVE PieceLen(_, _)
PieceLen(s, i) ==
    IF i > Len(s) \/ s[i] = 0 THEN 0 ELSE 1 + PieceLen(s, i + 1)

\* ---------------------------------------------------------------- enums

OpCodeValue(kind) ==
    CASE kind = "ReadRequest" -> 1
      [] kind = "WriteRequest" -> 2
      [] kind = "Data" -> 3
      [] kind = "Acknowledgment" -> 4
      [] kind = "TFTPError" -> 5

ErrorCodeNames ==
    << "NotDefined", "FileNotFound", "AccessViolation", "DiskFull",
       "IllegalTFTPOperation", "UnknownTransferID", "FileAlreadyExists",
       "NoSuchUser" >>

ErrorCodeValue(code) ==
    CHOOSE v \in 0..7 : ErrorCodeNames[v + 1] = code

Err(e) == [t |-> "Err", err |-> e]

Panic == [t |-> "Panic"]

\* A variant that takes every unknown opcode for a read request; the
\* opcode check of C13 tells it from OpCodeTryFrom.
OpCodeTryFrom_Coerce(input) ==
    IF Len(input) /= 2 THEN Err("NotEnoughData")
    ELSE LET op == U16FromBE(input) IN
         CASE op = 2 -> [t |-> "Ok", v |-> "WriteRequest"]
           [] op = 3 -> [t |-> "Ok", v |-> "Data"]
           [] op = 4 -> [t |-> "Ok", v |-> "Acknowledgment"]
           [] op = 5 -> [t |-> "Ok", v |-> "TFTPError"]
           [] OTHER -> [t |-> "Ok", v |-> "ReadRequest"]

\* OpCode::try_from(&[u8]): the slice must hold exactly two bytes.
OpCodeTryFrom(input) ==
    IF Len(input) /= 2 THEN Err("NotEnoughData")
    ELSE LET op == U16FromBE(input) IN
         CASE op = 1 -> [t |-> "Ok", v |-> "ReadRequest"]
           [] op = 2 -> [t |-> "Ok", v |-> "WriteRequest"]
           [] op = 3 -> [t |-> "Ok", v |-> "Data"]
           [] op = 4 -> [t |-> "Ok", v |-> "Acknowledgment"]
           [] op = 5 -> [t |-> "Ok", v |-> "TFTPError"]
           [] OTHER -> Err("InvalidOpcode")

\* ErrorCode::try_from(&[u8]): an unknown code becomes NotDefined.
ErrorCodeTryFrom(input) ==
    IF Len(input) /= 2 THEN Err("NotEnoughData")
    ELSE LET op == U16FromBE(input) IN
         IF op \in 0..7 THEN [t |-> "Ok", v |-> ErrorCodeNames[op + 1]]
         ELSE [t |-> "Ok", v |-> "NotDefined"]

\* --------------------------------------------------------------- decode

\* ReadRequestPacket::try_from(input), input the bytes after the opcode.
\* splitn(3, NUL): the first piece always exists, the second only when the
\* input holds a NUL.  The mode is input[end_filename + 1 ..
\* end_filename + end_mode].
ReadRequestTryFrom(input) ==
    LET end_filename == PieceLen(input, 1)
        has_second == end_filename < Len(input)
        end_mode == PieceLen(input, end_filename + 2)
    IN  IF ~has_second THEN Err("NotEnoughData")
        ELSE IF ~SliceOk(input, end_filename + 1, end_filename + end_mode)
        THEN Panic
        ELSE [t |-> "Ok", kind |-> "ReadRequest",
              filename |-> Slice(input, 0, end_filename),
              mode |-> Slice(input, end_filename + 1, end_filename + end_mode)]

\* WriteRequestPacket::try_from(input): as the read request, but the mode
\* is input[end_filename + 1 .. end_mode].
WriteRequestTryFrom(input) ==
    LET end_filename == PieceLen(input, 1)
        has_second == end_filename < Len(input)
        end_mode == PieceLen(input, end_filename + 2)
    IN  IF ~has_second THEN Err("NotEnoughData")
        ELSE IF ~SliceOk(input, end_filename + 1, end_mode)
        THEN Panic
        ELSE [t |-> "Ok", kind |-> "WriteRequest",
              filename |-> Slice(input, 0, end_filename),
              mode |-> Slice(input, end_filename + 1, end_mode)]

\* DataPacket::try_from(input): the block number is read from the whole
\* input converted to [u8; 2], the data from input[2..] converted to
\* [u8; 512]; each conversion needs the exact length.
DataTryFrom(input) ==
    IF Len(input) /= 2 THEN Err("NotEnoughData")
    ELSE IF Len(Slice(input, 2, Len(input))) /= BLOCK_SIZE
    THEN Err("NotEnoughData")
    ELSE [t |-> "Ok", kind |-> "Data",
          block_number |-> U16FromBE(input),
          data |-> Slice(input, 2, Len(input))]

\* AckPacket::try_from(input): the block number is input[..2].
AckTryFrom(input) ==
    IF ~SliceOk(input, 0, 2) THEN Panic
    ELSE [t |-> "Ok", kind |-> "Acknowledgment",
          block_number |-> U16FromBE(Slice(input, 0, 2))]

\* ErrorPacket::try_from(input): the code is input[0..2]; the message is
\* input[2..end_error_msg], end_error_msg the length of the first piece of
\* input[2..].splitn(2, NUL).
ErrorTryFrom(input) ==
    IF ~SliceOk(input, 0, 2) THEN Panic
    ELSE LET code == ErrorCodeTryFrom(Slice(input, 0, 2))
             end_error_msg == PieceLen(input, 3)
         IN  IF code.t /= "Ok" THEN code
             ELSE IF ~SliceOk(input, 2, end_error_msg) THEN Panic
             ELSE [t |-> "Ok", kind |-> "TFTPError",
                   error_code |-> code.v,
                   error_msg |-> Slice(input, 2, end_error_msg)]

\* PacketType::try_from(input).
PacketTryFrom(input) ==
    IF ~SliceOk(input, 0, 2) THEN Panic
    ELSE LET opcode == OpCodeTryFrom(Slice(input, 0, 2))
             rest == Slice(input, 2, Len(input))
         IN  IF opcode.t /= "Ok" THEN opcode
             ELSE CASE opcode.v = "ReadRequest" -> ReadRequestTryFrom(rest)
                    [] opcode.v = "WriteRequest" -> WriteRequestTryFrom(rest)
                    [] opcode.v = "Data" -> DataTryFrom(rest)
                    [] opcode.v = "Acknowledgment" -> AckTryFrom(rest)
                    [] opcode.v = "TFTPError" -> ErrorTryFrom(rest)

\* --------------------------------------------------------------- encode
\* Each serialize() returns (length, pkt); callers send pkt[0..length],
\* which is what these operators give.

ReadRequestSerialize(p) ==
    U16ToBE(OpCodeValue("ReadRequest")) \o p.filename \o <<0>> \o p.mode \o <<0>>

WriteRequestSerialize(p) ==
    U16ToBE(OpCodeValue("WriteRequest")) \o p.filename \o <<0>> \o p.mode \o <<0>>

\* DataSerialize with the whole buffer copied, whatever data_length says.
DataSerialize_WholeBuffer(block_number, data, data_length) ==
    U16ToBE(OpCodeValue("Data")) \o U16ToBE(block_number) \o data

\* data holds the whole 512-byte buffer, data_length says how much is sent.
DataSerialize(block_number, data, data_length) ==
    U16ToBE(OpCodeValue("Data")) \o U16ToBE(block_number)
        \o Slice(data, 0, data_length)

AckSerialize(block_number) ==
    U16ToBE(OpCodeValue("Acknowledgment")) \o U16ToBE(block_number)

ErrorSerialize(error_code, error_msg) ==
    U16ToBE(OpCodeValue("TFTPError")) \o U16ToBE(ErrorCodeValue(error_code))
        \o error_msg \o <<0>>

\* ---------------------------------------------------------------- state

VARIABLES
    listen_q,        \* datagrams waiting on the listening socket (port 69)
    main_pc,         \* main's loop: "recv" or "panicked"
    disp_sent,       \* datagrams sent by the free function send_error
    disp_log,        \* per pass of main's loop: the datagram received and
                     \* what PacketType::try_from made of the buffer
    pc,              \* the session thread: "none", "read_start",
                     \* "write_start", "recv", "returned", "panicked"
    exit,            \* why the session thread ended ("" while it runs)
    rrq,             \* the request packet the session was spawned with
    file_size,       \* the length of the one file the root directory holds
    file_pos,        \* the read position of the opened file
    file_buffer,     \* [u8; 512], the chunk buffer
    ack_buffer,      \* [u8; 512], the receive buffer
    packet_counter,  \* u16
    data_read,       \* the length of the chunk of this pass
    buf,             \* buf[0..size]: the serialized Data packet of this pass
    inbox,           \* datagrams waiting on the session's socket
    sent,            \* datagrams the session sent on its socket, in order
    reads,           \* how many times the session read from the file
    rcvd,            \* per datagram the session received: the block it
                     \* waited for and what the datagram decoded to
    c_pkt,           \* codec: the packet given to serialize()
    c_wire,          \* codec: the bytes serialize() gave, pkt[0..length]
    c_res            \* codec: what PacketType::try_from made of them

vars == << listen_q, main_pc, disp_sent, disp_log, pc, exit, rrq, file_size,
           file_pos, file_buffer, ack_buffer, packet_counter, data_read, buf,
           inbox, sent, reads, rcvd, c_pkt, c_wire, c_res >>

main_vars == << listen_q, main_pc, disp_sent, disp_log >>

codec_vars == << c_pkt, c_wire, c_res >>

loop_vars == << file_pos, file_buffer, packet_counter, data_read, buf, reads >>

\* ---------------------------------------------------------- environment

Min(a, b) == IF a <= b THEN a ELSE b

\* ASCII strings of the source and of the requests.
StrOctet == << 111, 99, 116, 101, 116 >>
StrOcte == << 111, 99, 116, 101 >>
StrBinary == << 98, 105, 110, 97, 114, 121 >>
StrNetascii == << 110, 101, 116, 97, 115, 99, 105, 105 >>
StrOctetUpper == << 79, 67, 84, 69, 84 >>
StrMail == << 109, 97, 105, 108 >>
StrDontWannaParse ==
    << 68, 111, 110, 39, 116, 32, 119, 97, 110, 110, 97, 32, 112, 97, 114,
       115, 101 >>
StrInvalidInitialRequest ==
    << 73, 110, 118, 97, 108, 105, 100, 32, 73, 110, 105, 116, 105, 97, 108,
       32, 82, 101, 113, 117, 101, 115, 116 >>

\* The root directory holds one regular file, named "a"; "b" does not exist.
FileName == << 97 >>
MissingName == << 98 >>

\* Other names a request can carry: a path of the file, the root directory
\* itself, and bytes that are not UTF-8.
DotSlashName == << 46, 47 >> \o FileName
DotName == << 46 >>
EmptyName == << >>
NotUtf8Name == << 255 >>

\* The content of the file: byte i (0-based) of it.
FileByte(i) == i % 251

\* The most full blocks a file of the model holds.
MaxFullBlocks == 1

\* The lengths of the last, short chunk that the model's files have.
TailLengths == {0, 1, 488, 511}

FileSizes == { n * BLOCK_SIZE + r : n \in 0..MaxFullBlocks, r \in TailLengths }

\* The most datagrams waiting on the session's socket at once.
MaxInFlight == 1

\* The first datagrams a client sends to the listening socket.
InitialDatagrams ==
    { ReadRequestSerialize([filename |-> FileName, mode |-> StrOctet]),
      ReadRequestSerialize([filename |-> FileName, mode |-> StrNetascii]),
      ReadRequestSerialize([filename |-> MissingName, mode |-> StrOctet]),
      ReadRequestSerialize([filename |-> DotSlashName, mode |-> StrOctet]),
      ReadRequestSerialize([filename |-> DotName, mode |-> StrOctet]),
      ReadRequestSerialize([filename |-> EmptyName, mode |-> StrOctet]),
      ReadRequestSerialize([filename |-> NotUtf8Name, mode |-> StrOctet]),
      ReadRequestSerialize([filename |-> FileName,
                            mode |-> NotUtf8Name \o << 116 >>]),
      WriteRequestSerialize([filename |-> FileName, mode |-> StrOctet]),
      AckSerialize(0),
      << 0, 6 >> }

\* The block numbers of the Acks the peer of the model sends.
AckBlocks == 0..(MaxFullBlocks + 2)

\* What the peer sends to the session's socket.
PeerDatagrams ==
    { AckSerialize(n) : n \in AckBlocks }
    \cup { ReadRequestSerialize([filename |-> FileName, mode |-> StrOctet]),
           ErrorSerialize("DiskFull", << 97, 98 >>),
           ErrorSerialize("DiskFull", << >>),
           DataSerialize(1, << 7 >>, 1),
           << 0, 6 >>,
           << >> }

\* ----------------------------------------------------------------- init

Init ==
    /\ listen_q \in { << d >> : d \in InitialDatagrams }
    /\ main_pc = "recv"
    /\ disp_sent = << >>
    /\ disp_log = << >>
    /\ pc = "none"
    /\ exit = ""
    /\ rrq = [t |-> "None"]
    /\ file_size \in FileSizes
    /\ file_pos = 0
    /\ file_buffer = Zeros(BLOCK_SIZE)
    /\ ack_buffer = Zeros(ACK_BUFFER_SIZE)
    /\ packet_counter = 1
    /\ data_read = 0
    /\ buf = << >>
    /\ inbox = << >>
    /\ sent = << >>
    /\ reads = 0
    /\ rcvd = << >>
    /\ c_pkt = << >>
    /\ c_wire = << >>
    /\ c_res = [t |-> "None"]

\* ----------------------------------------------------------------- main

\* socket.recv_from(&mut buf) into a fresh [0; 4096]: the datagram, cut to
\* the buffer, followed by zeros.
MainBuffer(d) ==
    LET n == Min(Len(d), BUFFER_SIZE)
    IN  SubSeq(d, 1, n) \o Zeros(BUFFER_SIZE - n)

\* tftp_rs::send_error(dst, error_str): one Error{NotDefined, error_str}
\* from a fresh socket.
SendErrorFree(error_str) == ErrorSerialize("NotDefined", error_str)

\* One pass of main's loop: receive, decode, spawn or answer with an error.
Dispatch ==
    /\ main_pc = "recv"
    /\ listen_q /= << >>
    /\ listen_q' = Tail(listen_q)
    /\ LET val == PacketTryFrom(MainBuffer(Head(listen_q)))
       IN  /\ disp_log' =
                Append(disp_log, [dgram |-> Head(listen_q), val |-> val])
           /\ IF val.t = "Panic"
              THEN /\ main_pc' = "panicked"
                   /\ UNCHANGED << disp_sent, pc, rrq >>
              ELSE IF val.t = "Err"
              THEN /\ disp_sent' =
                       Append(disp_sent,
                              SendErrorFree(StrInvalidInitialRequest))
                   /\ UNCHANGED << main_pc, pc, rrq >>
              ELSE IF val.kind = "ReadRequest"
              THEN /\ pc' = "read_start"
                   /\ rrq' = val
                   /\ UNCHANGED << main_pc, disp_sent >>
              ELSE IF val.kind = "WriteRequest"
              THEN /\ pc' = "write_start"
                   /\ rrq' = val
                   /\ UNCHANGED << main_pc, disp_sent >>
              ELSE /\ disp_sent' =
                       Append(disp_sent, SendErrorFree(StrDontWannaParse))
                   /\ UNCHANGED << main_pc, pc, rrq >>
    /\ UNCHANGED << exit, file_size, loop_vars, ack_buffer, inbox, sent, rcvd,
                    codec_vars >>

\* The session threads live in main's process: a panic of the main thread
\* ends the process and every thread with it.
ProcessRuns == main_pc /= "panicked"

\* -------------------------------------------------------------- session

\* TFTPServer::send_error(s, dst, error_code): one Error packet with an
\* empty message on the session's socket; it returns Ok(()) always.
SendError(error_code) == ErrorSerialize(error_code, << >>)

\* The match on rrq.mode: the modes that send no error.
ModeAccepted(mode) == mode \in { StrBinary, StrOctet, StrOcte }

\* A continuation byte of UTF-8.
IsCont(b) == b \in 128..191

\* CStr::to_str() succeeds: the bytes from index i (1-based) on are
\* well-formed UTF-8 (no overlong form, no surrogate, at most U+10FFFF).
RECURSIVE Utf8From(_, _)
Utf8From(str, i) ==
    LET has(k) == i + k <= Len(str)
        cont(k) == IsCont(str[i + k])
        b == str[i]
    IN  IF i > Len(str) THEN TRUE
        ELSE IF b <= 127 THEN Utf8From(str, i + 1)
        ELSE IF b \in 194..223
        THEN has(1) /\ cont(1) /\ Utf8From(str, i + 2)
        ELSE IF b \in 224..239
        THEN /\ has(2)
             /\ IF b = 224 THEN str[i + 1] \in 160..191
                ELSE IF b = 237 THEN str[i + 1] \in 128..159
                ELSE cont(1)
             /\ cont(2)
             /\ Utf8From(str, i + 3)
        ELSE IF b \in 240..244
        THEN /\ has(3)
             /\ IF b = 240 THEN str[i + 1] \in 144..191
                ELSE IF b = 244 THEN str[i + 1] \in 128..143
                ELSE cont(1)
             /\ cont(2)
             /\ cont(3)
             /\ Utf8From(str, i + 4)
        ELSE FALSE

ToStrOk(str) == Utf8From(str, 1)

\* One component of the path, entered from the place the walk is at:
\* "root" is the root directory, "above" a directory on the way to it
\* (its ancestors and the file system's root), "file" the regular file.
\* The root directory holds the file and nothing else; its ancestors hold
\* nothing a request of the model names.
EnterComponent(at, comp) ==
    CASE at = "root" ->
           IF comp \in { << >>, << 46 >> } THEN "root"
           ELSE IF comp = << 46, 46 >> THEN "above"
           ELSE IF comp = FileName THEN "file"
           ELSE "missing"
      [] at = "above" ->
           IF comp \in { << >>, << 46 >>, << 46, 46 >> } THEN "above"
           ELSE "missing"
      [] OTHER -> "missing"

\* The walk along the components of the path, split on '/'.
RECURSIVE WalkPath(_, _, _, _)
WalkPath(name, i, comp, at) ==
    IF i > Len(name) THEN EnterComponent(at, comp)
    ELSE IF name[i] = 47
    THEN WalkPath(name, i + 1, << >>, EnterComponent(at, comp))
    ELSE WalkPath(name, i + 1, Append(comp, name[i]), at)

\* What Path::new(root_directory).join(filename) names: the regular file
\* ("file"), a directory ("dir") or nothing ("missing").  An absolute
\* filename replaces the root directory in the join.
PathKind(filename) ==
    LET start == IF filename /= << >> /\ filename[1] = 47
                 THEN "above" ELSE "root"
        at == WalkPath(filename, 1, << >>, start)
    IN  IF at \in {"root", "above"} THEN "dir" ELSE at

\* File::open(root_directory.join(filename)) succeeds: read-only, it opens
\* a directory as well as a regular file.
FileOpens(filename) == PathKind(filename) \in {"file", "dir"}

\* f.read(&mut file_buffer) returns an error: the opened path is a
\* directory.
ReadFails == PathKind(rrq.filename) = "dir"

\* f.read(&mut file_buffer) at position pos: how many bytes it returns.
ReadLen(pos) == Min(BLOCK_SIZE, file_size - pos)

\* file_buffer after that read: the chunk over the old content.
ReadInto(fb, pos) ==
    [i \in 1..BLOCK_SIZE |->
        IF i <= ReadLen(pos) THEN FileByte(pos + i - 1) ELSE fb[i]]

\* IsLastChunk with the loop ended by an empty chunk only.
IsLastChunk_OnlyEmpty(n) == n = 0

\* The test that ends the loop after a pass: data_read != 512.
IsLastChunk(n) == n /= BLOCK_SIZE

\* Increment that skips a block number; the sequence check of C17 tells
\* it from Increment.
Increment_Skip(n) == { [panic |-> FALSE, v |-> (n + 2) % U16_MOD] }

\* packet_counter += 1 on a u16: the values the build can give; "panic"
\* is the overflow check of a build with overflow checks on.
Increment(n) ==
    IF n + 1 < U16_MOD THEN { [panic |-> FALSE, v |-> n + 1] }
    ELSE { [panic |-> FALSE, v |-> (n + 1) % U16_MOD],
           [panic |-> TRUE, v |-> n] }

\* SendNextBlock with the Data packet sent twice; the count of C20 tells
\* it from SendNextBlock.
SendNextBlock_Twice(counter, out) ==
    LET n == ReadLen(file_pos)
        fb == ReadInto(file_buffer, file_pos)
        pkt == DataSerialize(counter, fb, n)
    IN  IF ReadFails
        THEN /\ pc' = "returned"
             /\ exit' = "FileReadError"
             /\ sent' = out
             /\ packet_counter' = counter
             /\ UNCHANGED << file_pos, file_buffer, data_read, buf, reads >>
        ELSE /\ packet_counter' = counter
             /\ data_read' = n
             /\ file_buffer' = fb
             /\ file_pos' = file_pos + n
             /\ reads' = reads + 1
             /\ buf' = pkt
             /\ sent' = Append(Append(out, pkt), pkt)
             /\ pc' = "recv"
             /\ exit' = exit

\* The top of the loop, up to the blocking recv: read a chunk, send its
\* Data packet with block number counter, after the datagrams out; a
\* failed read returns Err(FileReadError) and sends nothing.
SendNextBlock(counter, out) ==
    LET n == ReadLen(file_pos)
        fb == ReadInto(file_buffer, file_pos)
        pkt == DataSerialize(counter, fb, n)
    IN  IF ReadFails
        THEN /\ pc' = "returned"
             /\ exit' = "FileReadError"
             /\ sent' = out
             /\ packet_counter' = counter
             /\ UNCHANGED << file_pos, file_buffer, data_read, buf, reads >>
        ELSE /\ packet_counter' = counter
             /\ data_read' = n
             /\ file_buffer' = fb
             /\ file_pos' = file_pos + n
             /\ reads' = reads + 1
             /\ buf' = pkt
             /\ sent' = Append(out, pkt)
             /\ pc' = "recv"
             /\ exit' = exit

\* The thread ends: by a return ("returned") or a panic ("panicked").
SessionEnds(how, why, out) ==
    /\ pc' = how
    /\ exit' = why
    /\ sent' = out
    /\ UNCHANGED loop_vars

\* The bottom of the loop: packet_counter += 1, then either the break on a
\* short chunk or the next pass.
EndOfPass(out) ==
    \E next \in Increment(packet_counter) :
        IF next.panic THEN SessionEnds("panicked", "Overflow", out)
        ELSE IF IsLastChunk(data_read)
        THEN /\ pc' = "returned"
             /\ exit' = "EndOfFile"
             /\ sent' = out
             /\ packet_counter' = next.v
             /\ UNCHANGED << file_pos, file_buffer, data_read, buf, reads >>
        ELSE SendNextBlock(next.v, out)

\* handle_read_request from its start to the first recv.  The regular
\* file reads 512 bytes at a time until what is left is shorter, and the
\* sockets bind, send and receive without an operating system error.
ReadStart ==
    /\ ProcessRuns
    /\ pc = "read_start"
    /\ IF ~ToStrOk(rrq.mode)
       THEN SessionEnds("returned", "InvalidMode", sent)
       ELSE LET out == IF ModeAccepted(rrq.mode) THEN sent
                       ELSE Append(sent, SendError("NotDefined"))
            IN  IF ~ToStrOk(rrq.filename)
                THEN SessionEnds("returned", "InvalidFilename", out)
                ELSE IF ~FileOpens(rrq.filename)
                THEN SessionEnds("returned", "FileNotFound",
                                 Append(out, SendError("FileNotFound")))
                ELSE SendNextBlock(1, out)
    /\ UNCHANGED << main_vars, rrq, file_size, ack_buffer, inbox, rcvd,
                    codec_vars >>

\* tmp_socket.recv(&mut ack_buffer): the datagram, cut to the buffer, over
\* the old content.
RecvInto(ab, d) ==
    LET n == Min(Len(d), ACK_BUFFER_SIZE)
    IN  SubSeq(d, 1, n) \o SubSeq(ab, n + 1, ACK_BUFFER_SIZE)

\* The rest of a pass of the loop, from the return of recv on, and the
\* next pass up to its recv.
ReadRecv ==
    /\ ProcessRuns
    /\ pc = "recv"
    /\ inbox /= << >>
    /\ inbox' = Tail(inbox)
    /\ ack_buffer' = RecvInto(ack_buffer, Head(inbox))
    /\ LET val == PacketTryFrom(ack_buffer')
       IN  /\ rcvd' = Append(rcvd, [expect |-> packet_counter, val |-> val])
           /\ IF val.t = "Panic"
              THEN SessionEnds("panicked", "DecodePanic", sent)
              ELSE IF val.t = "Err"
              THEN SessionEnds("returned", "DecodeError",
                       Append(sent, SendError("IllegalTFTPOperation")))
              ELSE IF val.kind = "Acknowledgment"
              THEN IF val.block_number /= packet_counter
                   THEN EndOfPass(Append(sent, buf))
                   ELSE EndOfPass(sent)
              ELSE EndOfPass(Append(sent, SendError("IllegalTFTPOperation")))
    /\ UNCHANGED << main_vars, rrq, file_size, codec_vars >>

\* handle_write_request: binds a socket and returns Ok(()).
WriteStart ==
    /\ ProcessRuns
    /\ pc = "write_start"
    /\ SessionEnds("returned", "WriteReturned", sent)
    /\ UNCHANGED << main_vars, rrq, file_size, ack_buffer, inbox, rcvd,
                    codec_vars >>

\* The peer sends a datagram to the session's socket, whose address it
\* learnt from the first datagram of the session.
PeerSends(D) ==
    /\ pc = "recv"
    /\ Len(inbox) < MaxInFlight
    /\ \E d \in D : inbox' = Append(inbox, d)
    /\ UNCHANGED << main_vars, pc, exit, rrq, file_size, loop_vars,
                    ack_buffer, sent, rcvd, codec_vars >>

PeerSend == PeerSends(PeerDatagrams)

Next ==
    \/ Dispatch
    \/ ReadStart
    \/ ReadRecv
    \/ WriteStart
    \/ PeerSend

Spec == Init /\ [][Next]_vars

\* The threads of main and of the session are scheduled by the operating
\* system: a step that stays possible is taken.  The peer owes nothing.
FairSpec ==
    /\ Spec
    /\ WF_vars(Dispatch)
    /\ WF_vars(ReadStart)
    /\ WF_vars(ReadRecv)
    /\ WF_vars(WriteStart)

\* ------------------------------------------------- the u16 wrap of blocks
\* A read of a file of more than 65533 full blocks, taken up where the
\* session has sent Data block 65534 and waits for the answer; sent and
\* rcvd record the datagrams from there on.

WrapStart == U16_MOD - 2

\* The bytes of the file left after block WrapStart.
WrapRests == {0, 488, 512, 1000, 1024}

WrapDatagrams ==
    { AckSerialize(n) : n \in {WrapStart, WrapStart + 1, 0, 1} }
    \cup { ErrorSerialize("DiskFull", << 97, 98 >>), << 0, 6 >> }

InitWrap ==
    /\ listen_q = << >>
    /\ main_pc = "recv"
    /\ disp_sent = << >>
    /\ disp_log = << >>
    /\ pc = "recv"
    /\ exit = ""
    /\ rrq = PacketTryFrom(MainBuffer(
                ReadRequestSerialize([filename |-> FileName, mode |-> StrOctet])))
    /\ file_size \in { WrapStart * BLOCK_SIZE + r : r \in WrapRests }
    /\ file_pos = WrapStart * BLOCK_SIZE
    /\ file_buffer = [i \in 1..BLOCK_SIZE |->
                         FileByte((WrapStart - 1) * BLOCK_SIZE + i - 1)]
    /\ ack_buffer = RecvInto(Zeros(ACK_BUFFER_SIZE), AckSerialize(WrapStart - 1))
    /\ packet_counter = WrapStart
    /\ data_read = BLOCK_SIZE
    /\ buf = DataSerialize(WrapStart, file_buffer, BLOCK_SIZE)
    /\ inbox = << >>
    /\ sent = << buf >>
    /\ reads = WrapStart
    /\ rcvd = << >>
    /\ c_pkt = << >>
    /\ c_wire = << >>
    /\ c_res = [t |-> "None"]

PeerSendWrap == PeerSends(WrapDatagrams)

NextWrap ==
    \/ ReadRecv
    \/ PeerSendWrap

SpecWrap == InitWrap /\ [][NextWrap]_vars

\* ------------------------------------------------------------ the codec
\* serialize() followed by PacketType::try_from, on packets of each kind.

CodecNames == { << >>, << 97 >>, << 97, 98 >> }

CodecModes == { << >>, << 111 >>, StrOctet }

CodecMessages == { << >>, << 120 >>, << 120, 121 >>, << 97, 98, 99 >> }

CodecBlocks == { 0, 1, U16_MOD - 1 }

CodecPayloadLengths == { 0, 1, BLOCK_SIZE - 1, BLOCK_SIZE }

CodecPackets ==
    { [kind |-> k, filename |-> f, mode |-> m] :
        k \in {"ReadRequest", "WriteRequest"}, f \in CodecNames, m \in CodecModes }
    \cup { [kind |-> "Data", block_number |-> b,
            data |-> [i \in 1..BLOCK_SIZE |-> (i % 255) + 1], data_length |-> n] :
            b \in CodecBlocks, n \in CodecPayloadLengths }
    \cup { [kind |-> "Acknowledgment", block_number |-> b] : b \in CodecBlocks }
    \cup { [kind |-> "TFTPError", error_code |-> ErrorCodeNames[c], error_msg |-> m] :
            c \in 1..8, m \in CodecMessages }

\* The serialize() of the packet's own type.
PacketSerialize(p) ==
    CASE p.kind = "ReadRequest" -> ReadRequestSerialize(p)
      [] p.kind = "WriteRequest" -> WriteRequestSerialize(p)
      [] p.kind = "Data" -> DataSerialize(p.block_number, p.data, p.data_length)
      [] p.kind = "Acknowledgment" -> AckSerialize(p.block_number)
      [] p.kind = "TFTPError" -> ErrorSerialize(p.error_code, p.error_msg)

InitCodec ==
    /\ listen_q = << >>
    /\ main_pc = "recv"
    /\ disp_sent = << >>
    /\ disp_log = << >>
    /\ pc = "none"
    /\ exit = ""
    /\ rrq = [t |-> "None"]
    /\ file_size = 0
    /\ file_pos = 0
    /\ file_buffer = Zeros(BLOCK_SIZE)
    /\ ack_buffer = Zeros(ACK_BUFFER_SIZE)
    /\ packet_counter = 1
    /\ data_read = 0
    /\ buf = << >>
    /\ inbox = << >>
    /\ sent = << >>
    /\ reads = 0
    /\ rcvd = << >>
    /\ c_pkt \in CodecPackets
    /\ c_wire = << >>
    /\ c_res = [t |-> "None"]

session_vars ==
    << listen_q, main_pc, disp_sent, disp_log, pc, exit, rrq, file_size, loop_vars,
       ack_buffer, inbox, sent, rcvd >>

Encode ==
    /\ c_wire = << >>
    /\ c_wire' = PacketSerialize(c_pkt)
    /\ UNCHANGED << c_pkt, c_res, session_vars >>

\* The bytes are decoded as sent (pkt[0..length]), or as the program
\* decodes what it receives: a whole receive buffer, the datagram and zeros.
Decode ==
    /\ c_wire /= << >>
    /\ c_res.t = "None"
    /\ \E input \in { c_wire, RecvInto(Zeros(ACK_BUFFER_SIZE), c_wire),
                      MainBuffer(c_wire) } :
           c_res' = PacketTryFrom(input)
    /\ UNCHANGED << c_pkt, c_wire, session_vars >>

NextCodec ==
    \/ Encode
    \/ Decode

SpecCodec == InitCodec /\ [][NextCodec]_vars

\* ------------------------------------------------- the dispatcher's loop

\* How many datagrams the clients send to the listening socket in a run.
MaxRequests == 2

\* What the clients send to the listening socket: requests, packets of the
\* other kinds, unknown opcodes, and requests and errors with short fields.
DispDatagrams ==
    { ReadRequestSerialize([filename |-> FileName, mode |-> StrOctet]),
      ReadRequestSerialize([filename |-> FileName, mode |-> StrBinary]),
      ReadRequestSerialize([filename |-> FileName, mode |-> StrOctetUpper]),
      ReadRequestSerialize([filename |-> FileName, mode |-> StrOcte]),
      ReadRequestSerialize([filename |-> FileName, mode |-> StrMail]),
      ReadRequestSerialize([filename |-> MissingName, mode |-> StrOctet]),
      WriteRequestSerialize([filename |-> FileName, mode |-> StrOctet]),
      AckSerialize(0),
      DataSerialize(1, << 7 >>, 1),
      ErrorSerialize("DiskFull", << 97, 98 >>),
      ErrorSerialize("DiskFull", << >>),
      ReadRequestSerialize([filename |-> FileName, mode |-> << >>]),
      WriteRequestSerialize([filename |-> StrNetascii, mode |-> StrOctet]),
      << 0, 6 >>,
      << 0, 0 >>,
      << 255, 255 >>,
      << >> }

\* The datagram is one that makes main spawn a session.
IsRequest(d) ==
    LET val == PacketTryFrom(MainBuffer(d))
    IN  val.t = "Ok" /\ val.kind \in {"ReadRequest", "WriteRequest"}

\* The model holds the state of one session: the clients of a run send one
\* request at most.
NoRequestYet ==
    /\ pc = "none"
    /\ \A i \in 1..Len(listen_q) : ~IsRequest(listen_q[i])

DispFileSizes == {1, BLOCK_SIZE}

DispPeerDatagrams == { AckSerialize(1), AckSerialize(2), << 0, 6 >> }

InitDisp ==
    /\ listen_q = << >>
    /\ main_pc = "recv"
    /\ disp_sent = << >>
    /\ disp_log = << >>
    /\ pc = "none"
    /\ exit = ""
    /\ rrq = [t |-> "None"]
    /\ file_size \in DispFileSizes
    /\ file_pos = 0
    /\ file_buffer = Zeros(BLOCK_SIZE)
    /\ ack_buffer = Zeros(ACK_BUFFER_SIZE)
    /\ packet_counter = 1
    /\ data_read = 0
    /\ buf = << >>
    /\ inbox = << >>
    /\ sent = << >>
    /\ reads = 0
    /\ rcvd = << >>
    /\ c_pkt = << >>
    /\ c_wire = << >>
    /\ c_res = [t |-> "None"]

\* A client sends a datagram to port 69.
ClientSend ==
    /\ Len(disp_log) + Len(listen_q) < MaxRequests
    /\ \E d \in DispDatagrams :
          /\ IsRequest(d) => NoRequestYet
          /\ listen_q' = Append(listen_q, d)
    /\ UNCHANGED << main_pc, disp_sent, disp_log, pc, exit, rrq, file_size,
                    loop_vars, ack_buffer, inbox, sent, rcvd, codec_vars >>

PeerSendDisp == PeerSends(DispPeerDatagrams)

NextDisp ==
    \/ ClientSend
    \/ Dispatch
    \/ ReadStart
    \/ ReadRecv
    \/ WriteStart
    \/ PeerSendDisp

SpecDisp == InitDisp /\ [][NextDisp]_vars

\* ------------------------------------------------- decoding of raw bytes

\* The error codes on the wire: known ones and ones outside 0..7.
RawCodes == {0, 3, 7, 8, 255, 256, 65535}

\* Error packets with and without the NUL that ends the message.
RawErrors ==
    { << 0, 5 >> \o U16ToBE(code) \o msg \o term :
        code \in RawCodes, msg \in CodecMessages, term \in {<< 0 >>, << >>} }

\* Requests with both fields, with the last NUL missing, with the mode
\* missing, and with no NUL at all.
RawRequests ==
    { << 0, op >> \o body :
        op \in {1, 2},
        body \in UNION { { name, name \o << 0 >>, name \o << 0 >> \o mode,
                            name \o << 0 >> \o mode \o << 0 >> } :
                          name \in {<< >>, FileName},
                          mode \in {<< 111 >>, StrOctet} } }

\* The byte strings given to PacketType::try_from.
RawInputs ==
    RawErrors \cup RawRequests
        \cup { << 0, 0 >>, << 0, 6 >>, << 255, 255 >>, AckSerialize(1) }

InitRaw ==
    /\ listen_q = << >>
    /\ main_pc = "recv"
    /\ disp_sent = << >>
    /\ disp_log = << >>
    /\ pc = "none"
    /\ exit = ""
    /\ rrq = [t |-> "None"]
    /\ file_size = 0
    /\ file_pos = 0
    /\ file_buffer = Zeros(BLOCK_SIZE)
    /\ ack_buffer = Zeros(ACK_BUFFER_SIZE)
    /\ packet_counter = 1
    /\ data_read = 0
    /\ buf = << >>
    /\ inbox = << >>
    /\ sent = << >>
    /\ reads = 0
    /\ rcvd = << >>
    /\ c_pkt = << >>
    /\ c_wire \in RawInputs
    /\ c_res = [t |-> "None"]

\* PacketType::try_from(&c_wire[..]): the bytes as they are.
DecodeRaw ==
    /\ c_res.t = "None"
    /\ c_res' = PacketTryFrom(c_wire)
    /\ UNCHANGED << c_pkt, c_wire, session_vars >>

NextRaw == DecodeRaw

SpecRaw == InitRaw /\ [][NextRaw]_vars

\* ======================================================================
\* Properties
\* ======================================================================

IsData(p) == Len(p) >= 4 /\ p[1] = 0 /\ p[2] = 3

DataBlock(p) == p[3] * 256 + p[4]

DataPayload(p) == SubSeq(p, 5, Len(p))

\* The Data packets the session sent, in order.
DataSent == SelectSeq(sent, IsData)

IsAck(val) == val.t = "Ok" /\ val.kind = "Acknowledgment"

LastRcvd == rcvd[Len(rcvd)]

\* This step is one in which the session received a datagram.
Received == Len(rcvd') = Len(rcvd) + 1

\* The loop ended on a short chunk and the handler returned Ok(()).
Complete == pc = "returned" /\ exit = "EndOfFile"

\* The handler ended after an Error packet.
Aborted == pc = "returned" /\ exit \in {"DecodeError", "FileNotFound"}

\* A read session that got as far as opening the file.
ReadOpened == pc \in {"recv", "returned", "panicked"} /\ rrq.kind = "ReadRequest"
              /\ FileOpens(rrq.filename)

\* Every datagram received so far was the Ack of the block waited for.
AllMatched ==
    \A i \in 1..Len(rcvd) :
        IsAck(rcvd[i].val) /\ rcvd[i].val.block_number = rcvd[i].expect

\* This step is one pass of main's loop.
Dispatched == Len(disp_log') = Len(disp_log) + 1

LastDispatched == disp_log[Len(disp_log)]

\* The opcode main's buffer holds after the datagram was received.
WireOpcode(d) == U16FromBE(Slice(MainBuffer(d), 0, 2))

\* The datagram is an Error packet with one of the two codes.
IsDispatcherError(p) ==
    /\ Len(p) >= 5
    /\ U16FromBE(Slice(p, 0, 2)) = OpCodeValue("TFTPError")
    /\ U16FromBE(Slice(p, 2, 4)) \in
          { ErrorCodeValue("NotDefined"),
            ErrorCodeValue("IllegalTFTPOperation") }

\* The datagram of the run's log that main spawned the session for.
SessionDatagram ==
    LET i == CHOOSE i \in 1..Len(disp_log) :
                 /\ disp_log[i].val.t = "Ok"
                 /\ disp_log[i].val.kind \in {"ReadRequest", "WriteRequest"}
    IN  disp_log[i].dgram

\* The mode of a request datagram as it is on the wire: the bytes between
\* the NUL that ends the filename and the next NUL.
WireMode(d) ==
    LET rest == Slice(d, 2, Len(d))
        end_filename == PieceLen(rest, 1)
        mode_length == PieceLen(rest, end_filename + 2)
    IN  Slice(rest, end_filename + 1, end_filename + 1 + mode_length)

\* ASCII lower case.
ToLower(str) ==
    [i \in 1..Len(str) |->
        IF str[i] \in 65..90 THEN str[i] + 32 ELSE str[i]]

\* The bytes are an Error packet: opcode 5 and a code.
IsErrorWire(w) ==
    Len(w) >= 4 /\ U16FromBE(Slice(w, 0, 2)) = OpCodeValue("TFTPError")

WireCode(w) == U16FromBE(Slice(w, 2, 4))

HasNul(str) == \E i \in 1..Len(str) : str[i] = 0

\* The message of an Error packet on the wire: the bytes after the code,
\* up to the first NUL.
WireMessage(w) ==
    LET body == Slice(w, 4, Len(w))
    IN  Slice(body, 0, PieceLen(body, 1))

IsRequestWire(w) ==
    Len(w) >= 2 /\ U16FromBE(Slice(w, 0, 2)) \in {1, 2}

\* ---------------------------------------------------------------- C1
\* C1: when the session has sent Data block N and the next datagram is an
\* Ack{M} with M /= N, it sends the same Data packet once more and does
\* not advance: same block number, no further read, still waiting.
C1_MismatchResendsAndStays ==
    [][ (Received /\ IsAck(LastRcvd'.val)
            /\ LastRcvd'.val.block_number /= LastRcvd'.expect)
        => /\ sent' = Append(sent, buf)
           /\ packet_counter' = packet_counter
           /\ reads' = reads
           /\ pc' = "recv" ]_vars

\* ---------------------------------------------------------------- C2
\* C2: a read session is Complete only after it received the Ack of its
\* terminal Data packet (the last block sent, of payload under 512 bytes)
\* while it waited for that block.
C2_CompleteOnlyAfterFinalAck ==
    Complete =>
        \E i \in 1..Len(rcvd) :
            /\ IsAck(rcvd[i].val)
            /\ rcvd[i].expect = DataBlock(DataSent[Len(DataSent)])
            /\ rcvd[i].val.block_number = rcvd[i].expect

\* ---------------------------------------------------------------- C3
\* C3: the terminal-chunk rule.  A session that is Complete sent a last
\* Data packet of payload under 512 bytes (a 512-byte payload never ends
\* the transfer); after a Data packet of payload under 512 bytes no other
\* block follows (only that packet again); and a file whose length is a
\* multiple of 512 ends with a Data packet of no payload.
C3_TerminalChunkRule ==
    LET ds == DataSent
    IN  /\ Complete =>
              /\ Len(ds) >= 1
              /\ Len(DataPayload(ds[Len(ds)])) < BLOCK_SIZE
              /\ (file_size % BLOCK_SIZE = 0
                     => Len(DataPayload(ds[Len(ds)])) = 0)
        /\ \A i \in 1..Len(ds) : \A j \in 1..Len(ds) :
              (i < j /\ Len(DataPayload(ds[i])) < BLOCK_SIZE) => ds[j] = ds[i]
        /\ \A i \in 1..Len(ds) :
              (Len(DataPayload(ds[i])) = BLOCK_SIZE /\ pc = "recv"
                  /\ DataBlock(ds[i]) < packet_counter)
              => \E j \in 1..Len(ds) : j > i /\ DataBlock(ds[j]) = DataBlock(ds[i]) + 1

\* A file of exactly 512 bytes went out as a full block and an empty one.
C3_Witness ==
    /\ Complete
    /\ file_size = BLOCK_SIZE
    /\ Len(DataSent) = 2
    /\ Len(DataPayload(DataSent[1])) = BLOCK_SIZE
    /\ Len(DataPayload(DataSent[2])) = 0

\* ---------------------------------------------------------------- C4
\* What block k of the file is on the wire.
ExpectedData(k) ==
    LET from == BLOCK_SIZE * (k - 1)
        n == Min(BLOCK_SIZE, file_size - from)
    IN  << 0, 3 >> \o U16ToBE(k) \o [i \in 1..n |-> FileByte(from + i - 1)]

\* C4: while every datagram received was the matching Ack, the Data
\* packets sent are blocks 1, 2, ... of the file, block k carrying bytes
\* [512(k-1), min(512k, S)), each sent once, one more than the Acks
\* received; the session is Complete exactly when floor(S/512)+1 blocks
\* went out and were acknowledged.
C4_ExactBlocks ==
    (ReadOpened /\ AllMatched) =>
        LET ds == DataSent
            total == (file_size \div BLOCK_SIZE) + 1
        IN  /\ Len(ds) <= total
            /\ \A k \in 1..Len(ds) : ds[k] = ExpectedData(k)
            /\ (pc = "recv" => Len(ds) = Len(rcvd) + 1)
            /\ (Complete <=> (Len(ds) = total /\ Len(rcvd) = total))
            /\ pc /= "panicked"

\* The 1000-byte file went out as 512 and 488 bytes, each acknowledged.
C4_Witness ==
    /\ ReadOpened
    /\ AllMatched
    /\ Complete
    /\ file_size = 1000
    /\ Len(DataSent) = 2
    /\ Len(DataPayload(DataSent[1])) = 512
    /\ Len(DataPayload(DataSent[2])) = 488

\* ---------------------------------------------------------------- C5
\* The packet p and the decoded r agree in kind and in every field.
SamePacket(p, r) ==
    /\ r.t = "Ok"
    /\ r.kind = p.kind
    /\ CASE p.kind \in {"ReadRequest", "WriteRequest"} ->
               r.filename = p.filename /\ r.mode = p.mode
         [] p.kind = "Data" ->
               /\ r.block_number = p.block_number
               /\ Len(r.data) = p.data_length
               /\ r.data = SubSeq(p.data, 1, p.data_length)
         [] p.kind = "Acknowledgment" -> r.block_number = p.block_number
         [] p.kind = "TFTPError" ->
               r.error_code = p.error_code /\ r.error_msg = p.error_msg

\* C5: decoding the bytes that encoding p produced succeeds and gives a
\* packet equal to p in every field, for every packet kind.
C5_RoundTrip ==
    c_res.t /= "None" => SamePacket(c_pkt, c_res)

\* ---------------------------------------------------------------- C6
\* C6: once block 65535 (a full block, more of the file to come) is
\* acknowledged, the next Data packet goes out with block number 0, the
\* session does not fail at the wrap, and an Ack{0} for that block is
\* taken as the matching one (no resend).
C6_WrapToZero ==
    [][ /\ (Received /\ AllMatched' /\ LastRcvd'.expect = U16_MOD - 1
               /\ data_read = BLOCK_SIZE)
           => /\ pc' = "recv"
              /\ packet_counter' = 0
              /\ DataBlock(buf') = 0
              /\ sent' = Append(sent, buf')
        /\ (Received /\ LastRcvd'.expect = 0 /\ packet_counter = 0
               /\ IsAck(LastRcvd'.val)
               /\ LastRcvd'.val.block_number = 0)
           => /\ pc' /= "panicked"
              /\ packet_counter' = 1
              /\ (sent' = sent \/ (sent' = Append(sent, buf') /\ DataBlock(buf') = 1))
      ]_vars

\* ---------------------------------------------------------------- C7
\* C7: a datagram that decodes to a kind other than Ack, or that the
\* decoder rejects with an error, makes the waiting session send one
\* Error{IllegalOperation} and abort: nothing else is sent and no further
\* chunk is read.
C7_NonAckAborts ==
    [][ (Received /\ LastRcvd'.val.t \in {"Ok", "Err"} /\ ~IsAck(LastRcvd'.val))
        => /\ sent' = Append(sent, SendError("IllegalTFTPOperation"))
           /\ reads' = reads
           /\ pc' = "returned" ]_vars

\* ---------------------------------------------------------------- C8
\* C8: a read request whose mode is rejected ends with the one
\* Error{NotDefined}: the file is never read and no Data packet is sent.
C8_RejectedModeTerminates ==
    (pc \in {"recv", "returned", "panicked"} /\ rrq.kind = "ReadRequest"
        /\ ToStrOk(rrq.mode) /\ ~ModeAccepted(rrq.mode))
    => /\ pc = "returned"
       /\ sent = << SendError("NotDefined") >>
       /\ reads = 0

\* ---------------------------------------------------------------- C9
\* C9: every read session eventually terminates, whatever the peer does,
\* also when the peer never answers.
C9_ReadSessionTerminates ==
    (pc = "read_start") ~> (pc \in {"returned", "panicked"})

\* --------------------------------------------------------------- C10
\* C10: a write session first sends Ack{0} and then takes Data blocks in
\* sequence; it does not end before a Data block was received.
C10_WriteAcksFirst ==
    (pc = "returned" /\ rrq.kind = "WriteRequest")
    => /\ Len(sent) >= 1
       /\ sent[1] = AckSerialize(0)
       /\ Len(rcvd) >= 1

\* --------------------------------------------------------------- C11
\* C11: whatever datagram arrives on the listening socket, decoding it
\* gives a packet or a decode error, the process does not end, and main is
\* back at its receive step.
C11_DecodeNeverEndsProcess ==
    /\ main_pc = "recv"
    /\ \A i \in 1..Len(disp_log) : disp_log[i].val.t \in {"Ok", "Err"}

\* --------------------------------------------------------------- C12
\* C12: a first datagram of another kind than ReadRequest or WriteRequest
\* (Data, Acknowledgment, Error, or an opcode that does not decode) is
\* answered with exactly one Error packet (NotDefined or
\* IllegalTFTPOperation); no session is spawned and main goes on.
C12_NonRequestAnswered ==
    [][ (Dispatched /\ WireOpcode(LastDispatched'.dgram) \notin {1, 2})
        => /\ Len(disp_sent') = Len(disp_sent) + 1
           /\ IsDispatcherError(disp_sent'[Len(disp_sent')])
           /\ pc' = pc
           /\ rrq' = rrq
           /\ main_pc' = "recv" ]_vars

\* --------------------------------------------------------------- C13
\* C13: a datagram whose opcode is outside 1..5 decodes to InvalidOpcode,
\* never to a packet, and main spawns no session for it.
C13_InvalidOpcodeNoSession ==
    [][ (Dispatched /\ WireOpcode(LastDispatched'.dgram) \notin 1..5)
        => /\ LastDispatched'.val = Err("InvalidOpcode")
           /\ pc' = pc
           /\ rrq' = rrq
           /\ sent' = sent ]_vars

\* Opcode 6 and opcode 0 (an empty datagram) were both dispatched, each
\* was answered with an Error packet, and no session exists.
C13_Witness ==
    /\ Len(disp_log) = 2
    /\ disp_log[1].dgram = << 0, 6 >>
    /\ disp_log[1].val = Err("InvalidOpcode")
    /\ disp_log[2].dgram = << >>
    /\ disp_log[2].val = Err("InvalidOpcode")
    /\ Len(disp_sent) = 2
    /\ pc = "none"

\* --------------------------------------------------------------- C14
\* C14: while a session is blocked or after it ended, a pass of main's
\* loop leaves the session's state alone and the session able to go on,
\* and a step of the session leaves main's state alone.
C14_SessionsIndependent ==
    [][ /\ (Dispatched /\ pc \in {"recv", "returned", "panicked"})
           => /\ ProcessRuns'
              /\ UNCHANGED << pc, exit, rrq, loop_vars, ack_buffer, inbox,
                              sent, rcvd >>
        /\ (~Dispatched /\ pc' /= pc)
           => UNCHANGED << main_pc, disp_sent, disp_log >> ]_vars

\* --------------------------------------------------------------- C15
\* C15: a read request whose wire mode is "octet" or "binary" in any
\* letter case gets no Error packet for its mode (the session goes on to
\* the file); a read request with any other mode gets the Error packet.
C15_ModeAcceptance ==
    (pc \in {"recv", "returned", "panicked"} /\ rrq.kind = "ReadRequest")
    => /\ Len(sent) >= 1
       /\ IF ToLower(WireMode(SessionDatagram)) \in {StrOctet, StrBinary}
          THEN sent[1] /= SendError("NotDefined")
          ELSE sent[1] = SendError("NotDefined")

\* --------------------------------------------------------------- C16
\* C16: a read request whose name does not resolve to a readable source
\* (no such file, a directory, a name that is no path string) ends with
\* Error{FileNotFound}: the handler returns, no chunk is read and no Data
\* packet is sent.
C16_MissingFileEndsWithError ==
    (pc \in {"recv", "returned", "panicked"} /\ rrq.kind = "ReadRequest"
        /\ ToStrOk(rrq.mode)
        /\ (~ToStrOk(rrq.filename) \/ PathKind(rrq.filename) /= "file"))
    => /\ pc = "returned"
       /\ Len(sent) >= 1
       /\ sent[Len(sent)] = SendError("FileNotFound")
       /\ DataSent = << >>
       /\ reads = 0

\* --------------------------------------------------------------- C17
\* C17: the block numbers of the Data packets of a session go in sequence:
\* the first is 1, each later one repeats the one before it (the packet is
\* then the same packet, a resend) or is the one before plus 1 modulo 2^16.
C17_BlocksSequential ==
    /\ DataSent /= << >> => DataBlock(DataSent[1]) = 1
    /\ \A i \in 1..(Len(DataSent) - 1) :
          \/ DataSent[i + 1] = DataSent[i]
          \/ DataBlock(DataSent[i + 1]) = (DataBlock(DataSent[i]) + 1) % U16_MOD

\* Block 1, its resend after a mismatched Ack, then block 2.
C17_Witness ==
    /\ Len(DataSent) = 3
    /\ DataBlock(DataSent[1]) = 1
    /\ DataSent[2] = DataSent[1]
    /\ DataBlock(DataSent[3]) = 2

\* --------------------------------------------------------------- C18
\* C18: an Error packet with a code outside 0..7 and a message of any
\* length, ended by its NUL, decodes to an Error packet with code
\* NotDefined and the same message.
C18_UnknownCodeIsNotDefined ==
    (c_res.t /= "None" /\ IsErrorWire(c_wire) /\ WireCode(c_wire) \notin 0..7
        /\ HasNul(Slice(c_wire, 4, Len(c_wire))))
    => c_res = [t |-> "Ok", kind |-> "TFTPError",
                error_code |-> "NotDefined",
                error_msg |-> WireMessage(c_wire)]

\* --------------------------------------------------------------- C19
\* C19: an Error packet whose bytes after the code hold no NUL decodes to
\* NotEnoughData, and so does a request whose bytes after the opcode hold
\* no NUL (fewer than two fields).
C19_MissingTerminator ==
    /\ (c_res.t /= "None" /\ IsErrorWire(c_wire)
            /\ ~HasNul(Slice(c_wire, 4, Len(c_wire))))
        => c_res = Err("NotEnoughData")
    /\ (c_res.t /= "None" /\ IsRequestWire(c_wire)
            /\ ~HasNul(Slice(c_wire, 2, Len(c_wire))))
        => c_res = Err("NotEnoughData")

\* --------------------------------------------------------------- C20
\* C20: every pass of the read loop reads one chunk, sends its Data packet
\* and receives one datagram: the session never consumed more datagrams
\* than it read chunks, and no block's Data packet was sent more than
\* twice (once, and once more after a mismatched Ack).
C20_OneDatagramPerPass ==
    /\ Len(rcvd) <= reads
    /\ pc = "recv" => reads = Len(rcvd) + 1
    /\ Len(DataSent) <= 2 * reads
    /\ \A i \in 1..Len(DataSent) :
          Cardinality({ j \in 1..Len(DataSent) :
                          DataBlock(DataSent[j]) = DataBlock(DataSent[i]) })
              <= 2

\* Two chunks were read, two datagrams consumed, and each of the two
\* blocks was sent twice.
C20_Witness ==
    /\ reads = 2
    /\ Len(rcvd) = 2
    /\ Len(DataSent) = 4
    /\ DataSent[2] = DataSent[1]
    /\ DataSent[4] = DataSent[3]
    /\ DataBlock(DataSent[3]) = 2

====
